---------------------------- MODULE Spec2Model ----------------------------
(***************************************************************************)
(* Model of src/src/Lab_2_4_LR2.py: the LinearRegressor (fit by the normal  *)
(* equation or by batch gradient descent, predict), evaluate_regression and *)
(* one_hot_encode.                                                          *)
(*                                                                          *)
(* Numbers are exact rationals <<n, d>> (d > 0, lowest terms); the three    *)
(* non-finite floats a division by zero produces are <<0, 0>> (nan),        *)
(* <<1, 0>> (inf) and <<-1, 0>> (-inf).  A 1-D array is a sequence of       *)
(* numbers, a 2-D array a sequence of rows; an array argument carries its   *)
(* ndim, as numpy's does.                                                   *)
(***************************************************************************)
EXTENDS Integers, Sequences, FiniteSets, TLC

VARIABLES
    intercept,      \* LinearRegressor.intercept: None or a float
    coefficients,   \* LinearRegressor.coefficients: None or a 1-D array
    fitted,         \* history: some fit call has returned without raising
    call,           \* the last completed call: its arguments and its outcome
    input           \* the caller's data, for the specifications that fix it

vars == <<intercept, coefficients, fitted, call, input>>

----------------------------------------------------------------------------
(* Exact arithmetic *)

Abs(a) == IF a < 0 THEN -a ELSE a

Sign(a) == IF a < 0 THEN -1 ELSE IF a > 0 THEN 1 ELSE 0

RECURSIVE GCD(_, _)
GCD(a, b) == IF b = 0 THEN a ELSE GCD(b, a % b)

\* n/d in lowest terms with a positive denominator (d # 0)
Frac(n, d) ==
    LET g == GCD(Abs(n), Abs(d))
        s == IF d < 0 THEN -1 ELSE 1
    IN  <<s * (n \div g), s * (d \div g)>>

Num(k) == <<k, 1>>

Zero == Num(0)

One == Num(1)

NaN == <<0, 0>>

IsFinite(q) == q[2] # 0

RAdd(p, q) ==
    LET L == (p[2] \div GCD(p[2], q[2])) * q[2]
    IN  Frac(p[1] * (L \div p[2]) + q[1] * (L \div q[2]), L)

RNeg(p) == <<-p[1], p[2]>>

RSub(p, q) == RAdd(p, RNeg(q))

RMul(p, q) ==
    LET g1 == GCD(Abs(p[1]), q[2])
        g2 == GCD(Abs(q[1]), p[2])
    IN  <<(p[1] \div g1) * (q[1] \div g2), (p[2] \div g2) * (q[2] \div g1)>>

\* q # 0
RInv(q) == IF q[1] < 0 THEN <<-q[2], -q[1]>> ELSE <<q[2], q[1]>>

RDiv(p, q) == RMul(p, RInv(q))

RAbs(p) == <<Abs(p[1]), p[2]>>

\* float division: x/0 is nan for x = 0 and a signed infinity otherwise
FDiv(p, q) ==
    IF ~IsFinite(p) \/ ~IsFinite(q) THEN NaN
    ELSE IF q[1] = 0 THEN <<Sign(p[1]), 0>>
    ELSE RDiv(p, q)

\* float subtraction of a possibly non-finite q from a finite p
FSub(p, q) ==
    IF IsFinite(q) THEN RSub(p, q)
    ELSE IF q = NaN THEN NaN
    ELSE <<-q[1], 0>>

ISqrt(n) == CHOOSE r \in 0..n : r * r <= n /\ (r + 1) * (r + 1) > n

IsSquare(n) == ISqrt(n) * ISqrt(n) = n

\* np.sqrt of q >= 0 or nan: the rational root when there is one, and otherwise
\* the surd <<n, d, 2>>, which equals no rational
Sqrt(q) ==
    IF ~IsFinite(q) THEN q
    ELSE IF IsSquare(q[1]) /\ IsSquare(q[2]) THEN <<ISqrt(q[1]), ISqrt(q[2])>>
    ELSE <<q[1], q[2], 2>>

----------------------------------------------------------------------------
(* numpy arrays *)

RECURSIVE SumSeq(_)
SumSeq(s) == IF s = <<>> THEN Zero ELSE RAdd(Head(s), SumSeq(Tail(s)))

\* a 1-D array of integers as floats
Vec(s) == [i \in 1..Len(s) |-> Num(s[i])]

\* a 2-D array of integers as floats
Mat(rows) == [i \in 1..Len(rows) |-> Vec(rows[i])]

\* X.reshape(-1, 1) of a 1-D array
Reshape(x) == [i \in 1..Len(x) |-> <<x[i]>>]

NRows(A) == Len(A)

\* A.shape[1] of an array with at least one row
NCols(A) == Len(A[1])

\* X.T
Transpose(A) == [j \in 1..NCols(A) |-> [i \in 1..Len(A) |-> A[i][j]]]

\* 1-D . 1-D, equal lengths
Inner(u, v) == SumSeq([i \in 1..Len(u) |-> RMul(u[i], v[i])])

\* A.dot(v), A 2-D and v 1-D with len(v) = A.shape[1]
MatVec(A, v) == [i \in 1..Len(A) |-> Inner(A[i], v)]

\* A.dot(B), both 2-D with A.shape[1] = B.shape[0]
MatMat(A, B) ==
    [i \in 1..Len(A) |->
        [j \in 1..NCols(B) |-> Inner(A[i], [k \in 1..Len(B) |-> B[k][j]])]]

\* np.insert(X, 0, 1, axis=1)
InsertOnes(X) == [i \in 1..Len(X) |-> <<One>> \o X[i]]

\* X[:, 1:]
DropFirstCol(X) == [i \in 1..Len(X) |-> Tail(X[i])]

\* a[:, :j] and a[:, j:] for 0 <= j <= a.shape[1]
ColsBefore(A, j) == [i \in 1..Len(A) |-> SubSeq(A[i], 1, j)]

ColsFrom(A, j) == [i \in 1..Len(A) |-> SubSeq(A[i], j + 1, Len(A[i]))]

\* A without row i and column j
Minor(A, i, j) ==
    LET n == Len(A)
    IN  [r \in 1..(n - 1) |->
            [c \in 1..(n - 1) |->
                A[IF r < i THEN r ELSE r + 1][IF c < j THEN c ELSE c + 1]]]

RECURSIVE Det(_)
Det(A) ==
    IF Len(A) = 1 THEN A[1][1]
    ELSE SumSeq([j \in 1..Len(A) |->
            RMul(Num(IF j % 2 = 1 THEN 1 ELSE -1),
                 RMul(A[1][j], Det(Minor(A, 1, j))))])

\* the inverse of a square matrix with Det(A) # 0: adjugate over determinant
Inverse(A) ==
    LET n == Len(A)
        d == Det(A)
    IN  IF n = 1 THEN <<<<RInv(d)>>>>
        ELSE [i \in 1..n |->
                [j \in 1..n |->
                    RDiv(RMul(Num(IF (i + j) % 2 = 0 THEN 1 ELSE -1),
                              Det(Minor(A, j, i))), d)]]

----------------------------------------------------------------------------
(* Python values and exceptions *)

None == [type |-> "NoneType"]

Float(q) == [type |-> "float", val |-> q]

\* a 1-D array
Array1(v) == [type |-> "ndarray", ndim |-> 1, val |-> v]

\* a 2-D array with at least one row
Array2(rows) == [type |-> "ndarray", ndim |-> 2, val |-> rows]

NoError == "none"

InvalidMethod == "ValueError: Method not available for training linear regression."

NotFitted == "ValueError: Model is not yet fitted"

Singular == "LinAlgError: Singular matrix"

NotAligned == "ValueError: shapes not aligned"

NoBroadcast == "ValueError: operands could not be broadcast together"

DivByZero == "ZeroDivisionError: float division by zero"

\* a method leaving by an exception, the object as it stands at the raise
Raise(self, e) == [self |-> self, raised |-> e, ret |-> None]

\* a method returning normally
Return(self, v) == [self |-> self, raised |-> NoError, ret |-> v]

----------------------------------------------------------------------------
(* class LinearRegressor *)

\* __init__
NewRegressor == [coefficients |-> None, intercept |-> None]

\* predict assigning its first prediction to self.intercept
predict_StoringPrediction(self, X) ==
    IF self.coefficients = None \/ self.intercept = None
    THEN Raise(self, NotFitted)
    ELSE LET X2 == IF X.ndim = 1 THEN Reshape(X.val) ELSE X.val
         IN  IF NCols(X2) # Len(self.coefficients.val)
             THEN Raise(self, NotAligned)
             ELSE LET predictions == [i \in 1..Len(X2) |->
                                        RAdd(Inner(X2[i], self.coefficients.val),
                                             self.intercept.val)]
                  IN  Return([self EXCEPT !.intercept = Float(predictions[1])],
                             Array1(predictions))

predict(self, X) ==
    IF self.coefficients = None \/ self.intercept = None
    THEN Raise(self, NotFitted)
    ELSE LET X2 == IF X.ndim = 1 THEN Reshape(X.val) ELSE X.val
         IN  IF NCols(X2) # Len(self.coefficients.val)
             THEN Raise(self, NotAligned)
             ELSE Return(self,
                    Array1([i \in 1..Len(X2) |->
                        RAdd(Inner(X2[i], self.coefficients.val),
                             self.intercept.val)]))

\* fit_multiple raising after it has assigned the intercept
fit_multiple_RaisingHalfway(self, X, y) ==
    LET XT   == Transpose(X)
        gram == MatMat(XT, X)
    IN  IF Det(gram) = Zero THEN Raise(self, Singular)
        ELSE IF Len(y.val) # NRows(X) THEN Raise(self, NotAligned)
        ELSE LET theta == MatVec(MatMat(Inverse(gram), XT), y.val)
             IN  Raise([self EXCEPT !.intercept = Float(theta[1])], NotAligned)

\* fit_multiple taking the bias for the last column: theta[-1] and theta[:-1]
fit_multiple_BiasLast(self, X, y) ==
    LET XT   == Transpose(X)
        gram == MatMat(XT, X)
    IN  IF Det(gram) = Zero THEN Raise(self, Singular)
        ELSE IF Len(y.val) # NRows(X) THEN Raise(self, NotAligned)
        ELSE LET theta == MatVec(MatMat(Inverse(gram), XT), y.val)
             IN  Return([coefficients |-> Array1(SubSeq(theta, 1, Len(theta) - 1)),
                         intercept |-> Float(theta[Len(theta)])], None)

\* X is the design matrix with its bias column
fit_multiple(self, X, y) ==
    LET XT   == Transpose(X)
        gram == MatMat(XT, X)
    IN  IF Det(gram) = Zero THEN Raise(self, Singular)
        ELSE IF Len(y.val) # NRows(X) THEN Raise(self, NotAligned)
        ELSE LET theta == MatVec(MatMat(Inverse(gram), XT), y.val)
             IN  Return([coefficients |-> Array1(Tail(theta)),
                         intercept |-> Float(theta[1])], None)

\* predictions - y under numpy's broadcasting of two 1-D arrays that fit
Subtract(a, b) ==
    LET n == IF Len(a) = 1 THEN Len(b) ELSE Len(a)
    IN  [i \in 1..n |->
            RSub(IF Len(a) = 1 THEN a[1] ELSE a[i],
                 IF Len(b) = 1 THEN b[1] ELSE b[i])]

Broadcastable(a, b) == Len(a) = Len(b) \/ Len(a) = 1 \/ Len(b) = 1

\* the body of the loop with the coefficients' gradient taken after the
\* intercept's update, from a second error
Epoch_GradientAfterIntercept(self, X, y, learning_rate, m) ==
    LET predictions == predict(self, Array2(DropFirstCol(X))).ret.val
    IN  IF ~Broadcastable(predictions, y.val) THEN Raise(self, NoBroadcast)
        ELSE LET error == Subtract(predictions, y.val)
             IN  IF m = 0 THEN Raise(self, DivByZero)
                 ELSE IF Len(error) # NRows(X) THEN Raise(self, NotAligned)
                 ELSE LET step      == RDiv(learning_rate, Num(m))
                          XTe       == MatVec(Transpose(X), error)
                          self1     == [self EXCEPT !.intercept =
                                          Float(RSub(self.intercept.val,
                                                     RMul(step, XTe[1])))]
                          error2    == Subtract(
                                          predict(self1, Array2(DropFirstCol(X))).ret.val,
                                          y.val)
                          XTe2      == MatVec(Transpose(X), error2)
                          self2     == [self1 EXCEPT !.coefficients =
                                          Array1([j \in 1..Len(self1.coefficients.val) |->
                                             RSub(self1.coefficients.val[j],
                                                  RMul(step, XTe2[j + 1]))])]
                     IN  Return(self2, None)

\* the body of the loop of fit_gradient_descent, once
Epoch(self, X, y, learning_rate, m) ==
    LET predictions == predict(self, Array2(DropFirstCol(X))).ret.val
    IN  IF ~Broadcastable(predictions, y.val) THEN Raise(self, NoBroadcast)
        ELSE LET error == Subtract(predictions, y.val)
             IN  IF m = 0 THEN Raise(self, DivByZero)
                 ELSE IF Len(error) # NRows(X) THEN Raise(self, NotAligned)
                 ELSE LET step     == RDiv(learning_rate, Num(m))
                          XTe      == MatVec(Transpose(X), error)
                          gradient == [j \in 1..Len(XTe) |-> RMul(step, XTe[j])]
                          self1    == [self EXCEPT !.intercept =
                                         Float(RSub(self.intercept.val, gradient[1]))]
                          self2    == [self1 EXCEPT !.coefficients =
                                         Array1([j \in 1..Len(self1.coefficients.val) |->
                                            RSub(self1.coefficients.val[j],
                                                 gradient[j + 1])])]
                     IN  Return(self2, None)

\* for epoch in range(iterations), from epoch on
RECURSIVE Epochs(_, _, _, _, _, _, _)
Epochs(self, X, y, learning_rate, m, epoch, iterations) ==
    IF epoch >= iterations THEN Return(self, None)
    ELSE LET out == Epoch(self, X, y, learning_rate, m)
         IN  IF out.raised # NoError THEN out
             ELSE Epochs(out.self, X, y, learning_rate, m, epoch + 1, iterations)

\* rnd holds what np.random.rand returns: rnd.coefficients for rand(p) and
\* rnd.intercept for rand()
fit_gradient_descent(self, X, y, learning_rate, iterations, rnd) ==
    LET m     == Len(y.val)
        self1 == [self EXCEPT !.coefficients =
                    Array1([j \in 1..(NCols(X) - 1) |->
                        RMul(rnd.coefficients[j], <<1, 100>>)])]
        self2 == [self1 EXCEPT !.intercept = Float(RMul(rnd.intercept, <<1, 100>>))]
    IN  Epochs(self2, X, y, learning_rate, m, 0, iterations)

\* fit without its check of method
fit_WithoutMethodCheck(self, X, y, method, learning_rate, iterations, rnd) ==
    LET X2          == IF X.ndim = 1 THEN Reshape(X.val) ELSE X.val
        X_with_bias == InsertOnes(X2)
    IN  IF method = "least_squares" THEN fit_multiple(self, X_with_bias, y)
        ELSE IF method = "gradient_descent"
        THEN fit_gradient_descent(self, X_with_bias, y, learning_rate,
                                  iterations, rnd)
        ELSE Return(self, None)

fit(self, X, y, method, learning_rate, iterations, rnd) ==
    IF method \notin {"least_squares", "gradient_descent"}
    THEN Raise(self, InvalidMethod)
    ELSE LET X2          == IF X.ndim = 1 THEN Reshape(X.val) ELSE X.val
             X_with_bias == InsertOnes(X2)
         IN  IF method = "least_squares" THEN fit_multiple(self, X_with_bias, y)
             ELSE fit_gradient_descent(self, X_with_bias, y, learning_rate,
                                       iterations, rnd)

----------------------------------------------------------------------------
(* evaluate_regression *)

Square(q) == RMul(q, q)

\* np.mean of a 1-D array that is not empty
Mean(v) == RDiv(SumSeq(v), Num(Len(v)))

\* evaluate_regression with r_squared = ss_res / ss_tot
evaluate_regression_RatioOnly(y_true, y_pred) ==
    LET diff      == Subtract(y_true, y_pred)
        ss_res    == SumSeq([i \in 1..Len(diff) |-> Square(diff[i])])
        mean      == Mean(y_true)
        ss_tot    == SumSeq([i \in 1..Len(y_true) |-> Square(RSub(y_true[i], mean))])
        r_squared == FDiv(ss_res, ss_tot)
        rmse      == Sqrt(FDiv(ss_res, Num(Len(y_true))))
        mae       == FDiv(SumSeq([i \in 1..Len(diff) |-> RAbs(diff[i])]),
                          Num(Len(y_true)))
    IN  [R2 |-> r_squared, RMSE |-> rmse, MAE |-> mae]

\* y_true and y_pred are 1-D arrays of one length, not empty
evaluate_regression(y_true, y_pred) ==
    LET diff      == Subtract(y_true, y_pred)
        ss_res    == SumSeq([i \in 1..Len(diff) |-> Square(diff[i])])
        mean      == Mean(y_true)
        ss_tot    == SumSeq([i \in 1..Len(y_true) |-> Square(RSub(y_true[i], mean))])
        r_squared == FSub(One, FDiv(ss_res, ss_tot))
        rmse      == Sqrt(FDiv(ss_res, Num(Len(y_true))))
        mae       == FDiv(SumSeq([i \in 1..Len(diff) |-> RAbs(diff[i])]),
                          Num(Len(y_true)))
    IN  [R2 |-> r_squared, RMSE |-> rmse, MAE |-> mae]

----------------------------------------------------------------------------
(* one_hot_encode; the categories are integers, as are the entries of the    *)
(* result, and the indices are the columns' own, 0 to X.shape[1] - 1         *)

\* s with x inserted before its first element smaller than x
RECURSIVE InsertDescending(_, _)
InsertDescending(x, s) ==
    IF s = <<>> THEN <<x>>
    ELSE IF x >= Head(s) THEN <<x>> \o s
    ELSE <<Head(s)>> \o InsertDescending(x, Tail(s))

\* the indices in the order given
Unsorted(s) == s

\* sorted(s, reverse=True)
RECURSIVE SortedReverse(_)
SortedReverse(s) ==
    IF s = <<>> THEN <<>> ELSE InsertDescending(Head(s), SortedReverse(Tail(s)))

\* the elements of a set of integers in ascending order
RECURSIVE Ascending(_)
Ascending(S) ==
    IF S = {} THEN <<>>
    ELSE LET lo == CHOOSE x \in S : \A z \in S : x <= z
         IN  <<lo>> \o Ascending(S \ {lo})

\* X[:, index], index counted from 0
Column(X, index) == [i \in 1..Len(X) |-> X[i][index + 1]]

\* np.unique of a 1-D array
Unique(column) == Ascending({column[i] : i \in 1..Len(column)})

\* the n x k array whose column i marks the rows holding the i-th unique value
Indicators(categorical_column, unique_values) ==
    [r \in 1..Len(categorical_column) |->
        [i \in 1..Len(unique_values) |->
            IF categorical_column[r] = unique_values[i] THEN 1 ELSE 0]]

\* one_hot[:, :-1] when drop_first
DropLast(one_hot, drop_first) ==
    IF drop_first
    THEN [r \in 1..Len(one_hot) |-> SubSeq(one_hot[r], 1, Len(one_hot[r]) - 1)]
    ELSE one_hot

\* one_hot[:, 1:] when drop_first
DropFirst(one_hot, drop_first) ==
    IF drop_first THEN DropFirstCol(one_hot) ELSE one_hot

\* np.hstack of three arrays of equally many rows
HStack(A, B, C) == [i \in 1..Len(A) |-> A[i] \o B[i] \o C[i]]

\* the body of the loop, for one index
EncodeColumn(X, X_transformed, index, drop_first) ==
    LET categorical_column == Column(X, index)
        unique_values      == Unique(categorical_column)
        one_hot            == DropFirst(Indicators(categorical_column, unique_values),
                                        drop_first)
    IN  HStack(ColsBefore(X_transformed, index), one_hot,
               ColsFrom(X_transformed, index + 1))

\* the loop over indices, a sequence
RECURSIVE EncodeLoop(_, _, _, _)
EncodeLoop(X, X_transformed, indices, drop_first) ==
    IF indices = <<>> THEN X_transformed
    ELSE EncodeLoop(X, EncodeColumn(X, X_transformed, Head(indices), drop_first),
                    Tail(indices), drop_first)

one_hot_encode(X, categorical_indices, drop_first) ==
    EncodeLoop(X, X, SortedReverse(categorical_indices), drop_first)

----------------------------------------------------------------------------
(* The calls a program makes on one LinearRegressor *)

MaxIterations == 2

\* design matrices: 1-D with two rows, one row, collinear with the bias column
FitXs ==
    << Array1(Vec(<<0, 1>>)),
       Array2(Mat(<<<<2>>>>)),
       Array2(Mat(<<<<1>>, <<1>>>>)) >>

\* targets of lengths 2 and 3
FitYs ==
    { Array1(Vec(<<1, 3>>)),
      Array1(Vec(<<2, 0, 1>>)) }

Methods == {"least_squares", "gradient_descent", "ols"}

LearningRates == {<<1, 2>>, <<1, 4>>}

\* fit's defaults: learning_rate=0.01, iterations=1000
DefaultLearningRate == <<1, 100>>

DefaultIterations == 1000

\* the (learning_rate, iterations) a call passes: any for gradient descent, and
\* for the methods that never read them the defaults or others
Hypers(method) ==
    IF method = "gradient_descent"
    THEN LearningRates \X (0..MaxIterations)
    ELSE {<<DefaultLearningRate, DefaultIterations>>, <<<<1, 2>>, 1>>}

PredictXs ==
    << Array1(Vec(<<2, 3>>)),
       Array2(Mat(<<<<5>>>>)),
       Array2(Mat(<<<<1, 1>>, <<0, 2>>>>)) >>

\* the number of features of a design matrix
Features(X) == IF X.ndim = 1 THEN 1 ELSE NCols(X.val)

\* what np.random.rand returns during one fit, values in [0, 1): all zero, or
\* j/4 for coefficient j and 1/2 for the intercept; it is called by
\* fit_gradient_descent alone
RandomStreams(method, X) ==
    IF method = "gradient_descent"
    THEN { [coefficients |-> [j \in 1..Features(X) |-> Zero], intercept |-> Zero],
           [coefficients |-> [j \in 1..Features(X) |-> Frac(j, 4)],
            intercept |-> <<1, 2>>] }
    ELSE { [coefficients |-> <<>>, intercept |-> Zero] }

Self == [coefficients |-> coefficients, intercept |-> intercept]

NoInput == [kind |-> "none"]

Init ==
    /\ coefficients = NewRegressor.coefficients
    /\ intercept = NewRegressor.intercept
    /\ fitted = FALSE
    /\ call = [op |-> "__init__"]
    /\ input = NoInput

Fit(X, y, method, learning_rate, iterations, rnd) ==
    \E out \in {fit(Self, X, y, method, learning_rate, iterations, rnd)} :
        /\ coefficients' = out.self.coefficients
        /\ intercept' = out.self.intercept
        /\ fitted' = (fitted \/ out.raised = NoError)
        /\ call' = [op |-> "fit", X |-> X, y |-> y, method |-> method,
                    learning_rate |-> learning_rate, iterations |-> iterations,
                    rnd |-> rnd, raised |-> out.raised]
        /\ UNCHANGED input

Predict(X) ==
    \E out \in {predict(Self, X)} :
        /\ coefficients' = out.self.coefficients
        /\ intercept' = out.self.intercept
        /\ call' = [op |-> "predict", X |-> X, raised |-> out.raised,
                    ret |-> out.ret]
        /\ UNCHANGED <<fitted, input>>

Next ==
    \/ \E i \in DOMAIN FitXs, y \in FitYs, method \in Methods :
          \E h \in Hypers(method), rnd \in RandomStreams(method, FitXs[i]) :
             Fit(FitXs[i], y, method, h[1], h[2], rnd)
    \/ \E i \in DOMAIN PredictXs : Predict(PredictXs[i])

Spec == Init /\ [][Next]_vars

----------------------------------------------------------------------------
(* One LinearRegressor fitted to one data set and asked for predictions *)

Dataset(X, y) == [kind |-> "dataset", X |-> X, y |-> Array1(Vec(y))]

Datasets ==
    << Dataset(Array2(Mat(<<<<1>>, <<2>>, <<3>>, <<4>>>>)), <<2, 4, 6, 8>>),
       Dataset(Array1(Vec(<<0, 1, 2>>)), <<1, 3, 5>>),
       Dataset(Array2(Mat(<<<<0, 0>>, <<1, 0>>, <<0, 1>>>>)), <<1, 3, 0>>),
       Dataset(Array2(Mat(<<<<0, 1>>, <<1, 0>>, <<1, 1>>, <<2, 1>>>>)), <<1, 0, 2, 3>>),
       Dataset(Array2(Mat(<<<<0>>, <<1>>, <<2>>>>)), <<1, 0, 2>>),
       Dataset(Array2(Mat(<<<<1>>, <<1>>>>)), <<1, 3>>),
       Dataset(Array2(Mat(<<<<0>>, <<1>>>>)), <<5>>) >>

\* the X of the spec's scenario predict([[5]])
NewX == Array2(Mat(<<<<5>>>>))

InitData ==
    /\ coefficients = NewRegressor.coefficients
    /\ intercept = NewRegressor.intercept
    /\ fitted = FALSE
    /\ call = [op |-> "__init__"]
    /\ \E i \in DOMAIN Datasets : input = Datasets[i]

FitData ==
    \E method \in {"least_squares", "gradient_descent"} :
       \E h \in Hypers(method), rnd \in RandomStreams(method, input.X) :
          Fit(input.X, input.y, method, h[1], h[2], rnd)

PredictData == Predict(input.X) \/ Predict(NewX)

NextData == FitData \/ PredictData

SpecData == InitData /\ [][NextData]_vars

----------------------------------------------------------------------------
(* evaluate_regression applied to the caller's arrays *)

MaxLen == 2

MaxVal == 2

\* 1-D integer arrays of the lengths 1 to MaxLen
Vectors == UNION {[1..n -> 0..MaxVal] : n \in 1..MaxLen}

InitEval ==
    /\ coefficients = NewRegressor.coefficients
    /\ intercept = NewRegressor.intercept
    /\ fitted = FALSE
    /\ call = [op |-> "__init__"]
    /\ \E y_true \in Vectors, y_pred \in Vectors :
          /\ Len(y_true) = Len(y_pred)
          /\ input = [kind |-> "arrays", y_true |-> Vec(y_true), y_pred |-> Vec(y_pred)]

Evaluate ==
    /\ call' = [op |-> "evaluate_regression",
                ret |-> evaluate_regression(input.y_true, input.y_pred)]
    /\ UNCHANGED <<coefficients, intercept, fitted, input>>

NextEval == Evaluate

SpecEval == InitEval /\ [][NextEval]_vars

----------------------------------------------------------------------------
(* one_hot_encode applied to the caller's matrix *)

MaxCols == 3

\* categorical columns of three rows with 3, 2 and 1 categories
CategoricalColumns == <<(<<1, 0, 2>>), (<<5, 5, 3>>), (<<1, 1, 1>>)>>

\* the three-row matrix of the given columns
FromColumns(cols) == [i \in 1..3 |-> [j \in 1..Len(cols) |-> cols[j][i]]]

Matrices ==
    UNION {{FromColumns([j \in 1..p |-> CategoricalColumns[pick[j]]]) :
                pick \in [1..p -> DOMAIN CategoricalColumns]} : p \in 1..MaxCols}

\* the lists of distinct indices among 0 .. p-1, in every order
IndexLists(p) ==
    UNION {{s \in [1..n -> 0..(p - 1)] : \A a, b \in 1..n : a # b => s[a] # s[b]} :
                n \in 0..p}

InitEncode ==
    /\ coefficients = NewRegressor.coefficients
    /\ intercept = NewRegressor.intercept
    /\ fitted = FALSE
    /\ call = [op |-> "__init__"]
    /\ \E X \in Matrices, drop_first \in BOOLEAN :
          \E categorical_indices \in IndexLists(NCols(X)) :
             input = [kind |-> "matrix", X |-> X,
                      categorical_indices |-> categorical_indices,
                      drop_first |-> drop_first]

Encode ==
    /\ call' = [op |-> "one_hot_encode",
                ret |-> one_hot_encode(input.X, input.categorical_indices,
                                       input.drop_first)]
    /\ UNCHANGED <<coefficients, intercept, fitted, input>>

NextEncode == Encode

SpecEncode == InitEncode /\ [][NextEncode]_vars

----------------------------------------------------------------------------
(* Properties of the LinearRegressor's life cycle, under Spec *)

IsSet == coefficients # None /\ intercept # None

ValidMethods == {"least_squares", "gradient_descent"}

SameArray(A, B) == A.ndim = B.ndim /\ A.val = B.val

\* C1: a fit call that raises on a regressor holding fitted parameters leaves
\* intercept and coefficients as they were before the call.
C1_FailedFitLeavesParameters ==
    [][(fitted /\ IsSet /\ call'.op = "fit" /\ call'.raised # NoError)
          => UNCHANGED <<intercept, coefficients>>]_vars

\* C2: fit with a method other than "least_squares" and "gradient_descent"
\* raises the invalid-method ValueError and leaves intercept and coefficients
\* as they were, whatever the other arguments and the regressor's state.
C2_InvalidMethodRaisesFirst ==
    [][(call'.op = "fit" /\ call'.method \notin ValidMethods)
          => (call'.raised = InvalidMethod /\ UNCHANGED <<intercept, coefficients>>)]_vars

\* C2's case: an invalid-method fit was rejected on a fitted regressor.
C2_Witness ==
    /\ call.op = "fit"
    /\ call.method = "ols"
    /\ call.raised = InvalidMethod
    /\ fitted
    /\ IsSet

\* C3: predict raises "Model is not yet fitted" exactly when no fit call has
\* succeeded on the regressor.
C3_NotFittedIffNoSuccessfulFit ==
    call.op = "predict" => ((call.raised = NotFitted) <=> ~fitted)

\* C4: intercept and coefficients are both None or both set, after every call.
C4_SetTogether == (coefficients = None) <=> (intercept = None)

\* C4's case: a fit call raised and the regressor holds both parameters.
C4_Witness ==
    /\ call.op = "fit"
    /\ call.raised \in {NoBroadcast, NotAligned}
    /\ IsSet

\* C5: predict leaves intercept and coefficients unchanged, two predict calls in
\* a row on the same X have the same outcome, only fit changes the parameters,
\* and a fit that returns leaves what it would leave on a new regressor.
C5_PredictReadOnlyFitOverwrites ==
    [][/\ call'.op = "predict" =>
             /\ UNCHANGED <<intercept, coefficients>>
             /\ (call.op = "predict" /\ SameArray(call.X, call'.X))
                   => (call'.raised = call.raised /\ call'.ret = call.ret)
       /\ <<intercept, coefficients>>' # <<intercept, coefficients>>
             => call'.op = "fit"
       /\ (call'.op = "fit" /\ call'.raised = NoError) =>
             [coefficients |-> coefficients', intercept |-> intercept']
                = fit(NewRegressor, call'.X, call'.y, call'.method,
                      call'.learning_rate, call'.iterations, call'.rnd).self
      ]_vars

\* C5's case: a predict call returned predictions from fitted parameters.
C5_Witness ==
    /\ call.op = "predict"
    /\ call.raised = NoError
    /\ fitted
    /\ Len(call.ret.val) = 2

----------------------------------------------------------------------------
(* Properties of evaluate_regression, under SpecEval *)

Evaluated == call.op = "evaluate_regression"

\* all elements of a 1-D array are one value
IsConstant(v) == \A i \in 1..Len(v) : v[i] = v[1]

\* C6 as stated: evaluate_regression(y, y) returns R2 = 1.0, RMSE = 0.0 and
\* MAE = 0.0 for every 1-D array y that is not empty.
C6_PerfectPredictionMetrics ==
    (Evaluated /\ input.y_true = input.y_pred)
       => (call.ret.R2 = One /\ call.ret.RMSE = Zero /\ call.ret.MAE = Zero)

\* C6 amended: evaluate_regression(y, y) returns RMSE = 0.0 and MAE = 0.0, and
\* R2 = 1.0 unless the elements of y are all equal, when R2 is nan.
C6_PerfectPredictionMetricsUnlessConstant ==
    (Evaluated /\ input.y_true = input.y_pred)
       => /\ call.ret.RMSE = Zero
          /\ call.ret.MAE = Zero
          /\ call.ret.R2 = IF IsConstant(input.y_true) THEN NaN ELSE One

\* C6's case: y evaluated against itself, its elements not all equal.
C6_Witness ==
    /\ Evaluated
    /\ input.y_true = input.y_pred
    /\ ~IsConstant(input.y_true)
    /\ call.ret.R2 = One

----------------------------------------------------------------------------
(* Properties of one_hot_encode, under SpecEncode *)

Encoded == call.op = "one_hot_encode"

\* the set of the indices of a list
IndexSet(indices) == {indices[a] : a \in 1..Len(indices)}

\* the distinct values of column j (from 0) of X
Categories(X, j) == {X[r][j + 1] : r \in 1..Len(X)}

\* the place of value v among the distinct values S, from 1
Rank(v, S) == Cardinality({z \in S : z < v}) + 1

Dropped(drop_first) == IF drop_first THEN 1 ELSE 0

\* the number of columns that stand for column j in the result
Width(X, E, drop_first, j) ==
    IF j \in E THEN Cardinality(Categories(X, j)) - Dropped(drop_first) ELSE 1

RECURSIVE SumTo(_, _, _, _)
\* the number of columns that stand for the columns before j
SumTo(X, E, drop_first, j) ==
    IF j = 0 THEN 0
    ELSE SumTo(X, E, drop_first, j - 1) + Width(X, E, drop_first, j - 1)

RECURSIVE SumInts(_)
SumInts(s) == IF s = <<>> THEN 0 ELSE Head(s) + SumInts(Tail(s))

\* what stands for column j in row r: its indicators by ascending category,
\* the first left out when drop_first, or the value itself
Standing(X, E, drop_first, r, j) ==
    IF j \in E
    THEN [i \in 1..Width(X, E, drop_first, j) |->
            IF Rank(X[r][j + 1], Categories(X, j)) = i + Dropped(drop_first)
            THEN 1 ELSE 0]
    ELSE <<X[r][j + 1]>>

RECURSIVE RowTo(_, _, _, _, _)
\* row r of the expected result, up to column j of X
RowTo(X, E, drop_first, r, j) ==
    IF j = 0 THEN <<>>
    ELSE RowTo(X, E, drop_first, r, j - 1) \o Standing(X, E, drop_first, r, j - 1)

\* X with each column of E replaced, at its place, by its indicator block
Replaced(X, E, drop_first) ==
    [r \in 1..Len(X) |-> RowTo(X, E, drop_first, r, NCols(X))]

\* the part of row r of the result at the place of column j's block
BlockOf(ret, X, E, drop_first, r, j) ==
    SubSeq(ret[r], SumTo(X, E, drop_first, j) + 1,
           SumTo(X, E, drop_first, j) + Width(X, E, drop_first, j))

\* C7: in every row the indicators of an encoded column with k distinct values
\* sum to 1 without drop_first (k entries), and with drop_first (k-1 entries) to
\* 1 or 0, to 0 exactly when the row holds the column's smallest value.
C7_IndicatorRowSums ==
    Encoded =>
       \A j \in IndexSet(input.categorical_indices), r \in 1..Len(input.X) :
          LET E     == IndexSet(input.categorical_indices)
              block == BlockOf(call.ret, input.X, E, input.drop_first, r, j)
              k     == Cardinality(Categories(input.X, j))
              least == \A z \in Categories(input.X, j) : input.X[r][j + 1] <= z
          IN  /\ \A i \in 1..Len(block) : block[i] \in {0, 1}
              /\ ~input.drop_first => (Len(block) = k /\ SumInts(block) = 1)
              /\ input.drop_first =>
                    /\ Len(block) = k - 1
                    /\ SumInts(block) \in {0, 1}
                    /\ (SumInts(block) = 0) <=> least

\* C7's case: a column of three categories encoded with drop_first, among
\* others, and a row of it holding the reference category.
C7_Witness ==
    /\ Encoded
    /\ input.drop_first
    /\ NCols(input.X) = 3
    /\ input.categorical_indices = <<1, 2>>
    /\ Cardinality(Categories(input.X, 2)) = 3
    /\ Cardinality(Categories(input.X, 1)) = 2
    /\ SumInts(BlockOf(call.ret, input.X, {1, 2}, TRUE, 2, 2)) = 0
    /\ SumInts(BlockOf(call.ret, input.X, {1, 2}, TRUE, 1, 2)) = 1

\* C8: one_hot_encode returns X with each listed column replaced at its place
\* by its indicator block and the other columns kept in order; the result is
\* the same for every order of the list, and has p + sum of (k-1), or of (k-2)
\* with drop_first, columns.
C8_ColumnsReplacedInPlace ==
    Encoded =>
       LET X == input.X
           E == IndexSet(input.categorical_indices)
           d == Dropped(input.drop_first)
       IN  /\ call.ret = Replaced(X, E, input.drop_first)
           /\ \A other \in IndexLists(NCols(X)) :
                 IndexSet(other) = E
                    => one_hot_encode(X, other, input.drop_first) = call.ret
           /\ NCols(call.ret) =
                 NCols(X) + SumInts([a \in 1..Len(input.categorical_indices) |->
                    Cardinality(Categories(X, input.categorical_indices[a])) - 1 - d])

\* C8's case: three columns, two of them listed in ascending order, the first
\* of three categories, and a result wider than X.
C8_Witness ==
    /\ Encoded
    /\ NCols(input.X) = 3
    /\ input.categorical_indices = <<0, 2>>
    /\ Cardinality(Categories(input.X, 0)) = 3
    /\ Cardinality(Categories(input.X, 2)) = 2
    /\ ~input.drop_first
    /\ NCols(call.ret) = 6

----------------------------------------------------------------------------
(* Properties of the two fits, under SpecData *)

MaxCoef == 2

Coefs == (-MaxCoef)..MaxCoef

FitReturned(method) ==
    /\ call.op = "fit"
    /\ call.method = method
    /\ call.raised = NoError

\* the caller's data set is d
IsDataset(d) == SameArray(input.X, d.X) /\ input.y = d.y

\* the design matrix of a call, 2-D
Design(X) == IF X.ndim = 1 THEN [i \in 1..Len(X.val) |-> <<X.val[i]>>] ELSE X.val

\* y = a + X . b, row by row
ExactlyLinear(X, y, a, b) ==
    /\ Len(y) = Len(X)
    /\ \A i \in 1..Len(X) : y[i] = RAdd(Num(a), Inner(X[i], Vec(b)))

\* the Gram matrix of the design matrix with a leading column of ones
Gram(X) ==
    LET Xb == [i \in 1..Len(X) |-> <<One>> \o X[i]]
    IN  [r \in 1..(NCols(X) + 1) |->
            [c \in 1..(NCols(X) + 1) |->
                SumSeq([i \in 1..Len(X) |-> RMul(Xb[i][r], Xb[i][c])])]]

\* C9: when y = a + X.b exactly and the Gram matrix of the bias-augmented X is
\* invertible, the least-squares fit returns with intercept a and coefficients
\* b, and predict on the training X gives y; X = [[1],[2],[3],[4]] with
\* y = [2,4,6,8] gives intercept 0, coefficients [2] and predict([[5]]) = [10].
C9_LeastSquaresRecoversLinear ==
    /\ (call.op = "fit" /\ call.method = "least_squares") =>
          \A a \in Coefs, b \in [1..NCols(Design(call.X)) -> Coefs] :
             (/\ ExactlyLinear(Design(call.X), call.y.val, a, b)
              /\ Det(Gram(Design(call.X))) # Zero)
                => /\ call.raised = NoError
                   /\ intercept = Float(Num(a))
                   /\ coefficients = Array1(Vec(b))
                   /\ predict(Self, call.X).ret = call.y
    /\ (FitReturned("least_squares") /\ IsDataset(Datasets[1])) =>
          /\ intercept = Float(Zero)
          /\ coefficients = Array1(<<Num(2)>>)
          /\ predict(Self, NewX).ret = Array1(<<Num(10)>>)

\* C9's case: the least-squares fit of two features to exactly linear targets,
\* with a negative coefficient.
C9_Witness ==
    /\ FitReturned("least_squares")
    /\ IsDataset(Datasets[3])
    /\ ExactlyLinear(Design(call.X), call.y.val, 1, <<2, -1>>)
    /\ coefficients = Array1(Vec(<<2, -1>>))

\* one update of theta = <<intercept>> \o coefficients: the error of the
\* parameters at hand, the gradient rate/n . X_bias^T . error, theta - gradient
UpdateMap(theta, X, y, rate) ==
    LET n        == Len(X)
        error    == [i \in 1..n |->
                        RSub(RAdd(Inner(X[i], Tail(theta)), theta[1]), y[i])]
        gradient == [j \in 1..Len(theta) |->
                        RMul(RDiv(rate, Num(n)),
                             SumSeq([i \in 1..n |->
                                RMul(IF j = 1 THEN One ELSE X[i][j - 1], error[i])]))]
    IN  [j \in 1..Len(theta) |-> RSub(theta[j], gradient[j])]

RECURSIVE Iterate(_, _, _, _, _)
Iterate(theta, X, y, rate, times) ==
    IF times = 0 THEN theta
    ELSE Iterate(UpdateMap(theta, X, y, rate), X, y, rate, times - 1)

\* the initial draw: 0.01 times what np.random.rand returned
InitialDraw(rnd) ==
    <<RMul(rnd.intercept, <<1, 100>>)>>
       \o [j \in 1..Len(rnd.coefficients) |-> RMul(rnd.coefficients[j], <<1, 100>>)]

\* C10: for y of X's length, the gradient-descent fit leaves the initial draw
\* with the update map applied to it iterations times, each update from the
\* parameters at the start of its epoch and one gradient; with iterations = 0
\* it leaves the initial draw.
C10_GradientDescentIteratesUpdate ==
    (FitReturned("gradient_descent") /\ Len(call.y.val) = Len(Design(call.X))) =>
       /\ <<intercept.val>> \o coefficients.val
             = Iterate(InitialDraw(call.rnd), Design(call.X), call.y.val,
                       call.learning_rate, call.iterations)
       /\ call.iterations = 0 =>
             <<intercept.val>> \o coefficients.val = InitialDraw(call.rnd)

\* C10's case: two epochs on two features from a draw that is not zero.
C10_Witness ==
    /\ FitReturned("gradient_descent")
    /\ IsDataset(Datasets[4])
    /\ call.iterations = 2
    /\ call.rnd.intercept # Zero
    /\ intercept.val # RMul(call.rnd.intercept, <<1, 100>>)

=============================================================================
